---- MODULE Spec2Model ----
(***************************************************************************)
(* Model of src/main.py: the Pub/Sub consumer that forwards client         *)
(* registrations to a Discord webhook, with an optional Redis dedup cache. *)
(*                                                                         *)
(* Python values are tagged records [t, v]; strings are sequences of       *)
(* character tokens (one token per code point, named in ASCII).            *)
(***************************************************************************)
EXTENDS Integers, Sequences, FiniteSets, TLC

\* ------------------------------------------------------------------------
\* Bounds
\* ------------------------------------------------------------------------
\* number of messages the queue hands to callback (each may run concurrently)
MaxMsgs == 2

Msgs == 1..MaxMsgs

\* ------------------------------------------------------------------------
\* Python values
\* ------------------------------------------------------------------------
PyNone == [t |-> "none", v |-> <<>>]
PyStr(s) == [t |-> "str", v |-> s]
PyInt(n) == [t |-> "int", v |-> <<n>>]
PyList(l) == [t |-> "list", v |-> l]
\* a dict is its items in insertion order: <<key, value>> pairs, keys unique
PyDict(items) == [t |-> "dict", v |-> items]

\* bool(x)
Truthy(x) ==
    CASE x.t = "none" -> FALSE
      [] x.t = "int" -> x.v[1] # 0
      [] OTHER -> Len(x.v) > 0

\* "k in d" for a dict d
HasKey(d, k) == \E i \in 1..Len(d.v) : d.v[i][1] = k

\* d.get(k) for a dict d
DictGet(d, k) ==
    IF HasKey(d, k)
    THEN d.v[CHOOSE i \in 1..Len(d.v) : d.v[i][1] = k][2]
    ELSE PyNone

\* d[k] = x for a dict d: replace in place, or append
DictSet(d, k, x) ==
    IF HasKey(d, k)
    THEN PyDict([i \in 1..Len(d.v) |-> IF d.v[i][1] = k THEN <<k, x>> ELSE d.v[i]])
    ELSE PyDict(Append(d.v, <<k, x>>))

\* x or y
PyOr(x, y) == IF Truthy(x) THEN x ELSE y

\* ------------------------------------------------------------------------
\* Characters
\* ------------------------------------------------------------------------
Lowers == {"a", "b", "c", "e", "h", "i", "j", "l", "m", "n", "o", "s", "t",
           "u", "w", "x", "y", "z", "k", "d", "r"}
Uppers == {"A", "B", "C", "E", "J", "M", "N", "S", "X", "Y"}
Digits == {"0", "1", "2", "3", "4", "5", "6", "7", "8", "9"}
\* precomposed accented letters, their NFD base letter
Accented == {"e_acute", "E_acute", "c_cedilla", "a_tilde"}
\* combining marks, Unicode category Mn
Marks == {"U+0301", "U+0327", "U+0303"}
\* str.strip() and the regex class \s
Whitespace == {" ", "TAB", "LF"}

\* unicodedata.normalize('NFD', c) of one character
NFD(c) ==
    CASE c = "e_acute" -> <<"e", "U+0301">>
      [] c = "E_acute" -> <<"E", "U+0301">>
      [] c = "c_cedilla" -> <<"c", "U+0327">>
      [] c = "a_tilde" -> <<"a", "U+0303">>
      [] OTHER -> <<c>>

\* str.lower() of one character
LowerChar(c) ==
    CASE c = "A" -> "a" [] c = "B" -> "b" [] c = "C" -> "c" [] c = "E" -> "e"
      [] c = "J" -> "j" [] c = "M" -> "m" [] c = "N" -> "n" [] c = "S" -> "s"
      [] c = "X" -> "x" [] c = "Y" -> "y"
      [] c = "E_acute" -> "e_acute"
      [] OTHER -> c

RECURSIVE NFDString(_)
\* unicodedata.normalize('NFD', text)
NFDString(s) == IF s = <<>> THEN <<>> ELSE NFD(Head(s)) \o NFDString(Tail(s))

\* s[:n]
Take(s, n) == IF Len(s) <= n THEN s ELSE SubSeq(s, 1, n)

\* _remove_accents(text) on a string
_remove_accents(text) ==
    IF text = <<>> THEN text
    ELSE SelectSeq(NFDString(text), LAMBDA ch : ch \notin Marks)

\* str.lower()
Lower(s) == [i \in 1..Len(s) |-> LowerChar(s[i])]

RECURSIVE LStrip(_)
LStrip(s) == IF s # <<>> /\ Head(s) \in Whitespace THEN LStrip(Tail(s)) ELSE s

RECURSIVE RStrip(_)
RStrip(s) ==
    IF s # <<>> /\ s[Len(s)] \in Whitespace THEN RStrip(SubSeq(s, 1, Len(s) - 1)) ELSE s

\* str.strip()
Strip(s) == RStrip(LStrip(s))

\* ------------------------------------------------------------------------
\* str() and repr()
\* ------------------------------------------------------------------------
DigitChar(n) ==
    CASE n = 0 -> "0" [] n = 1 -> "1" [] n = 2 -> "2" [] n = 3 -> "3" [] n = 4 -> "4"
      [] n = 5 -> "5" [] n = 6 -> "6" [] n = 7 -> "7" [] n = 8 -> "8" [] OTHER -> "9"

\* the characters of a dict key
KeyChars(k) ==
    CASE k = "name" -> <<"n", "a", "m", "e">>
      [] k = "email" -> <<"e", "m", "a", "i", "l">>
      [] k = "phone" -> <<"p", "h", "o", "n", "e">>
      [] k = "notes" -> <<"n", "o", "t", "e", "s">>
      [] OTHER -> <<"c", "l", "i", "e", "n", "t">>

RECURSIVE Escaped(_)
\* the body of repr() of a string: control characters escaped
Escaped(s) ==
    IF s = <<>> THEN <<>>
    ELSE (CASE Head(s) = "TAB" -> <<"\\", "t">>
            [] Head(s) = "LF" -> <<"\\", "n">>
            [] OTHER -> <<Head(s)>>) \o Escaped(Tail(s))

RECURSIVE Repr(_)
RECURSIVE ReprItems(_, _)
\* repr() of the elements of a list or the items of a dict, joined by ", "
ReprItems(items, isDict) ==
    IF items = <<>> THEN <<>>
    ELSE LET one == IF isDict
                    THEN <<"'">> \o KeyChars(Head(items)[1]) \o <<"'", ":", " ">>
                         \o Repr(Head(items)[2])
                    ELSE Repr(Head(items))
         IN  one \o (IF Len(items) > 1 THEN <<",", " ">> ELSE <<>>)
                 \o ReprItems(Tail(items), isDict)

\* repr(x)
Repr(x) ==
    CASE x.t = "none" -> <<"N", "o", "n", "e">>
      [] x.t = "int" -> <<DigitChar(x.v[1])>>
      [] x.t = "str" -> <<"'">> \o Escaped(x.v) \o <<"'">>
      [] x.t = "list" -> <<"[">> \o ReprItems(x.v, FALSE) \o <<"]">>
      [] OTHER -> <<"{">> \o ReprItems(x.v, TRUE) \o <<"}">>

\* str(x)
Str(x) == IF x.t = "str" THEN x.v ELSE Repr(x)

\* ------------------------------------------------------------------------
\* Pure functions of main.py
\* ------------------------------------------------------------------------
\* length cap of the cache key's identifier
KeyCap == 64

\* length cap of the filename's name part
NameCap == 50

\* re.sub(r"[^a-z0-9_]", "_", s)
SubKeyChars(s) ==
    [i \in 1..Len(s) |->
        IF s[i] \in Lowers \cup Digits \cup {"_"} THEN s[i] ELSE "_"]

\* re.sub(r"[^A-Za-z0-9\-_\s]", "_", s)
SubNameChars(s) ==
    [i \in 1..Len(s) |->
        IF s[i] \in Lowers \cup Uppers \cup Digits \cup {"-", "_"} \cup Whitespace
        THEN s[i] ELSE "_"]

\* s.replace(" ", "_")
ReplaceSpaces(s) == [i \in 1..Len(s) |-> IF s[i] = " " THEN "_" ELSE s[i]]

\* _client_cache_key(client): "client_cache:" and the normalised identifier
_client_cache_key(client) ==
    LET identifier == PyOr(DictGet(client, "email"),
                      PyOr(DictGet(client, "phone"),
                      PyOr(DictGet(client, "name"),
                           PyStr(<<"u", "n", "k", "n", "o", "w", "n">>))))
        lowered == Lower(_remove_accents(Str(identifier)))
    IN  <<"client_cache:">> \o Take(SubKeyChars(lowered), KeyCap)

\* (name or "cliente").strip() raises AttributeError unless the value is a string
SafeFilenameRaises(name) == PyOr(name, PyStr(<<"c", "l", "i", "e", "n", "t", "e">>)).t # "str"

\* _safe_filename(name): the name part between "cliente_" and "_<timestamp>.txt"
_safe_filename(name) ==
    LET n0 == Strip(PyOr(name, PyStr(<<"c", "l", "i", "e", "n", "t", "e">>)).v)
        n1 == SubNameChars(_remove_accents(n0))
    IN  Take(ReplaceSpaces(n1), NameCap)

\* the placeholder name "Cliente_Sem_Nome"
PlaceholderName ==
    PyStr(<<"C", "l", "i", "e", "n", "t", "e", "_", "S", "e", "m", "_", "N", "o", "m", "e">>)

\* ------------------------------------------------------------------------
\* Payloads: message.data as (validity as UTF-8, its text, what json.loads gives)
\* ------------------------------------------------------------------------
InvalidUtf8(replaced) == [kind |-> "invalid_utf8", text |-> replaced, val |-> PyNone]
NotJson(text) == [kind |-> "not_json", text |-> text, val |-> PyNone]
Json(val) == [kind |-> "json", text |-> <<>>, val |-> val]

Email_xy == PyStr(<<"x", "@", "y", ".", "c", "o", "m">>)
Email_XY == PyStr(<<"X", "@", "Y", ".", "c", "o", "m">>)

PayloadList ==
    << InvalidUtf8(<<"U+FFFD">>),                                 \* b"\xff"
       NotJson(<<"h", "i", " ", "x">>),                           \* b"hi x"
       NotJson(<<>>),                                             \* b""
       Json(PyStr(<<"h", "i">>)),                                 \* "hi"
       Json(PyDict(<<>>)),                                        \* {}
       Json(PyDict(<< <<"name", PyStr(<<>>)>>,
                      <<"notes", PyStr(<<>>)>> >>)),              \* {"name":"","notes":""}
       Json(PyDict(<< <<"client", PyNone>> >>)),                  \* {"client": null}
       Json(PyDict(<< <<"client", PyStr(<<"a", "b">>)>> >>)),     \* {"client": "ab"}
       Json(PyDict(<< <<"client", PyList(<<>>)>> >>)),            \* {"client": []}
       Json(PyDict(<< <<"client", PyInt(5)>> >>)),                \* {"client": 5}
       Json(PyDict(<< <<"name", PyInt(5)>> >>)),                  \* {"name": 5}
       Json(PyDict(<< <<"client",
            PyDict(<< <<"name", PyStr(<<"J", "o", "s", "e_acute">>)>>,
                      <<"email", Email_xy>> >>)>> >>)),           \* {"client":{"name":"Jose'","email":"x@y.com"}}
       Json(PyDict(<< <<"name", PyStr(<<"A", "n", "a">>)>>,
                      <<"email", Email_XY>> >>))                  \* {"name":"Ana","email":"X@Y.com"}
    >>

\* ------------------------------------------------------------------------
\* callback, lines 108-135: decoding and minimum-data validation
\* ------------------------------------------------------------------------
\* raw.decode("utf-8") raises UnicodeDecodeError, which "except json.JSONDecodeError"
\* does not catch
DecodeRaises(r) == r.kind = "invalid_utf8"

\* client_data after lines 111-128 (for a payload on which they do not raise)
Decode(r) ==
    IF r.kind = "json"
    THEN IF r.val.t = "dict"
         THEN IF HasKey(r.val, "client") THEN DictGet(r.val, "client") ELSE r.val
         ELSE PyDict(<< <<"notes", PyStr(Str(r.val))>> >>)
    ELSE PyDict(<< <<"notes", PyStr(r.text)>> >>)

\* client_data.get(...) raises AttributeError unless client_data is a dict
ValidateRaises(cd) == cd.t # "dict"

\* client_data after lines 131-135
Validate(cd) ==
    IF Truthy(DictGet(cd, "name")) THEN cd
    ELSE LET withNotes == IF Truthy(DictGet(cd, "notes")) THEN cd
                          ELSE DictSet(cd, "notes", PyStr(Str(cd)))
         IN  DictSet(withNotes, "name", PlaceholderName)

\* lines 108-135 on each payload of PayloadList: whether they raise, and client_data
Decoded ==
    [i \in 1..Len(PayloadList) |->
        LET r == PayloadList[i]
            raises == DecodeRaises(r) \/ ValidateRaises(Decode(r))
        IN  [raises |-> raises,
             record |-> IF raises THEN PyNone ELSE Decode(r),
             client_data |-> IF raises THEN PyNone ELSE Validate(Decode(r))]]

\* ------------------------------------------------------------------------
\* State
\* ------------------------------------------------------------------------
VARIABLES
    DISCORD_URL,   \* os.environ.get("DISCORD_URL"): "" when unset or empty
    redis_client,  \* the module's Redis client: FALSE is None (cache disabled)
    REDIS_TTL,     \* os.environ.get("REDIS_TTL", "3600")
    cache,         \* the Redis store: the keys that hold a marker
    pc,            \* per message: where its callback invocation stands
    raw,           \* per message: message.data, as its index in PayloadList (0: not received)
    client_data,   \* per message: callback's client_data
    key,           \* per message: callback's key (line 152)
    trace,         \* per message: the calls made on Redis, the webhook and the message
    fn_in,         \* the arguments of a call of _safe_filename or _client_cache_key on its own
    fn_out         \* what that call returned

vars == <<DISCORD_URL, redis_client, REDIS_TTL, cache, pc, raw, client_data, key, trace,
          fn_in, fn_out>>

\* the variables of a function called on its own, which callback leaves alone
fn == <<fn_in, fn_out>>

NoInput == [op |-> "none", field |-> "name", a |-> <<>>, b |-> <<>>]
NoOutput == [done |-> FALSE, a |-> <<>>, b |-> <<>>]

config == <<DISCORD_URL, redis_client, REDIS_TTL>>

\* int(s) succeeds
IntParses(s) == s = "3600"

Init ==
    /\ DISCORD_URL \in {"", "https://discord.example/webhook"}
    /\ redis_client \in BOOLEAN
    /\ REDIS_TTL \in {"3600", "1h"}
    /\ cache = {}
    /\ pc = [m \in Msgs |-> "idle"]
    /\ raw = [m \in Msgs |-> 0]
    /\ client_data = [m \in Msgs |-> PyNone]
    /\ key = [m \in Msgs |-> <<>>]
    /\ trace = [m \in Msgs |-> <<>>]
    /\ fn_in = NoInput
    /\ fn_out = NoOutput

\* ------------------------------------------------------------------------
\* Where callback goes after each call returns or raises.  "ack" is line 178,
\* "nack" is the handler of lines 181-185; the other values are the call that
\* comes next.
\* ------------------------------------------------------------------------
\* an outer handler that acknowledges instead
UnexpectedFault_Swallowed == <<"ack">>

\* lines 181-185: the outer handler
UnexpectedFault == <<"nack">>

\* the acknowledgment followed, inside the try, by a statement that raises
Acknowledge_ThenRaises == <<"ack", "nack">>

\* line 178
Acknowledge == <<"ack">>

\* lines 142-150 and 171-173: after decoding and validation did not raise
AfterValidate(cd) ==
    IF DISCORD_URL = "" THEN "ack"
    ELSE IF SafeFilenameRaises(DictGet(cd, "name")) THEN "nack"
    ELSE IF redis_client THEN "get"
    ELSE "send_nocache"

\* lines 106-135: the whole of decoding and validation, on payload i
AfterReceive(i) ==
    IF Decoded[i].raises THEN "nack" ELSE AfterValidate(Decoded[i].client_data)

\* a hit that does not skip the delivery
AfterGet_IgnoreHit(res) ==
    CASE res = "get_hit" -> "send"
      [] res = "get_miss" -> "send"
      [] OTHER -> "fallback"

\* no handler around the cache operations: a faulting get reaches the outer handler
AfterGet_FaultPropagates(res) ==
    CASE res = "get_hit" -> "ack"
      [] res = "get_miss" -> "send"
      [] OTHER -> "nack"

\* the marker written right after the check, before the delivery
AfterGet_MarkFirst(res) ==
    CASE res = "get_hit" -> "ack"
      [] res = "get_miss" -> "set"
      [] OTHER -> "fallback"

\* lines 153-156 and 166-168: after redis_client.get(key)
AfterGet(res) ==
    CASE res = "get_hit" -> "ack"
      [] res = "get_miss" -> "send"
      [] OTHER -> "fallback"

\* a failed delivery raised to the outer handler
AfterSend_RaiseOnFailure(res) ==
    IF res = "send_ok"
    THEN IF IntParses(REDIS_TTL) THEN "set" ELSE "fallback"
    ELSE "nack"

\* the marker written whatever the delivery returned
AfterSend_MarkAlways(res) == IF IntParses(REDIS_TTL) THEN "set" ELSE "fallback"

\* lines 156-165: after send_text_file_to_discord on the cache path
AfterSend(res) ==
    IF res = "send_ok"
    THEN IF IntParses(REDIS_TTL) THEN "set" ELSE "fallback"
    ELSE "ack"

\* no handler around the marker write: its fault reaches the cache handler, which sends again
AfterSet_FaultToFallback(res) == IF res = "set_fault" THEN "fallback" ELSE "ack"

\* lines 159-163: after redis_client.set(key, "1", ex=ttl)
AfterSet(res) == "ack"

\* lines 169-170: after the fallback send
AfterFallbackSend(res) == "ack"

\* lines 173-176: after the send without cache
AfterPlainSend(res) == "ack"

\* the calls on the message that end the invocation, if `next` ends it
Terminal(next) ==
    CASE next = "ack" -> Acknowledge
      [] next = "nack" -> UnexpectedFault
      [] OTHER -> <<>>

\* one step of message m: it made the calls `events` and goes on to `next`
Step(m, events, next) ==
    /\ trace' = [trace EXCEPT ![m] = @ \o events \o Terminal(next)]
    /\ pc' = [pc EXCEPT ![m] = IF next \in {"ack", "nack"} THEN "done" ELSE next]

\* ------------------------------------------------------------------------
\* Actions
\* ------------------------------------------------------------------------
\* the key computed from the record as decoded, before the placeholder name is set
Receive_KeyBeforePlaceholder(m) ==
    /\ pc[m] = "idle"
    /\ \E i \in 1..Len(PayloadList) :
         LET cd == Decoded[i].client_data
             next == AfterReceive(i)
         IN  /\ raw' = [raw EXCEPT ![m] = i]
             /\ client_data' = [client_data EXCEPT ![m] = cd]
             /\ key' = [key EXCEPT ![m] = IF next = "get"
                                          THEN _client_cache_key(Decoded[i].record)
                                          ELSE <<>>]
             /\ Step(m, <<>>, next)
    /\ UNCHANGED <<config, fn, cache>>

\* callback(message), lines 100-152: up to the first call on Redis or the webhook
Receive(m) ==
    /\ pc[m] = "idle"
    /\ \E i \in 1..Len(PayloadList) :
         LET cd == Decoded[i].client_data
             next == AfterReceive(i)
         IN  /\ raw' = [raw EXCEPT ![m] = i]
             /\ client_data' = [client_data EXCEPT ![m] = cd]
             /\ key' = [key EXCEPT ![m] = IF next = "get" THEN _client_cache_key(cd) ELSE <<>>]
             /\ Step(m, <<>>, next)
    /\ UNCHANGED <<config, fn, cache>>

\* a check that also reserves the key when it is absent (set-if-absent)
CacheGet_SetIfAbsent(m) ==
    /\ pc[m] = "get"
    /\ \E res \in {IF key[m] \in cache THEN "get_hit" ELSE "get_miss", "get_fault"} :
         /\ cache' = IF res = "get_miss" THEN cache \cup {key[m]} ELSE cache
         /\ Step(m, <<res>>, AfterGet(res))
    /\ UNCHANGED <<config, fn, raw, client_data, key>>

\* a check that answers for any marker in the store, not for the message's key
CacheGet_AnyMarker(m) ==
    /\ pc[m] = "get"
    /\ \E res \in {IF cache # {} THEN "get_hit" ELSE "get_miss", "get_fault"} :
         Step(m, <<res>>, AfterGet(res))
    /\ UNCHANGED <<config, fn, cache, raw, client_data, key>>

\* line 153: redis_client.get(key) returns the marker, returns None, or raises
CacheGet(m) ==
    /\ pc[m] = "get"
    /\ \E res \in {IF key[m] \in cache THEN "get_hit" ELSE "get_miss", "get_fault"} :
         Step(m, <<res>>, AfterGet(res))
    /\ UNCHANGED <<config, fn, cache, raw, client_data, key>>

\* line 156 (and 158): the send on the cache path, then the reading of the TTL
Send(m) ==
    /\ pc[m] = "send"
    /\ \E res \in {"send_ok", "send_fail"} :
         Step(m,
              IF res = "send_ok" /\ ~IntParses(REDIS_TTL) THEN <<res, "ttl_fault">> ELSE <<res>>,
              AfterSend(res))
    /\ UNCHANGED <<config, fn, cache, raw, client_data, key>>

\* line 160: redis_client.set(key, "1", ex=ttl) writes the marker or raises
CacheSet(m) ==
    /\ pc[m] = "set"
    /\ \E res \in {"set_ok", "set_fault"} :
         /\ cache' = IF res = "set_ok" THEN cache \cup {key[m]} ELSE cache
         /\ Step(m, <<res>>, AfterSet(res))
    /\ UNCHANGED <<config, fn, raw, client_data, key>>

\* line 169: the send of the handler of cache faults
SendFallback(m) ==
    /\ pc[m] = "fallback"
    /\ \E res \in {"send_ok", "send_fail"} : Step(m, <<res>>, AfterFallbackSend(res))
    /\ UNCHANGED <<config, fn, cache, raw, client_data, key>>

\* line 173: the send when there is no Redis client
SendNoCache(m) ==
    /\ pc[m] = "send_nocache"
    /\ \E res \in {"send_ok", "send_fail"} : Step(m, <<res>>, AfterPlainSend(res))
    /\ UNCHANGED <<config, fn, cache, raw, client_data, key>>

\* the store drops a marker whose TTL has run out
Expire(k) ==
    /\ k \in cache
    /\ cache' = cache \ {k}
    /\ UNCHANGED <<config, fn, pc, raw, client_data, key, trace>>

Next ==
    \/ \E m \in Msgs : Receive(m)
    \/ \E m \in Msgs : CacheGet(m)
    \/ \E m \in Msgs : Send(m)
    \/ \E m \in Msgs : CacheSet(m)
    \/ \E m \in Msgs : SendFallback(m)
    \/ \E m \in Msgs : SendNoCache(m)
    \/ \E k \in cache : Expire(k)

Spec == Init /\ [][Next]_vars

\* ------------------------------------------------------------------------
\* Reading a trace
\* ------------------------------------------------------------------------
\* how many times event e occurs in trace tr
Count(tr, e) == Len(SelectSeq(tr, LAMBDA x : x = e))

Has(tr, e) == \E i \in 1..Len(tr) : tr[i] = e

\* the calls of send_text_file_to_discord in trace tr
Sends(tr) == Count(tr, "send_ok") + Count(tr, "send_fail")

\* some a occurs before some b
Precedes(tr, a, b) == \E i, j \in 1..Len(tr) : i < j /\ tr[i] = a /\ tr[j] = b

\* any step of message m's invocation
MsgStep(m) ==
    \/ Receive(m) \/ CacheGet(m) \/ Send(m)
    \/ CacheSet(m) \/ SendFallback(m) \/ SendNoCache(m)

\* the payload of message m, once received
Payload(m) == PayloadList[raw[m]]

\* lines 106-147 raise to the outer handler on payload i
RaisesUnhandled(i) ==
    \/ Decoded[i].raises
    \/ DISCORD_URL # "" /\ SafeFilenameRaises(DictGet(Decoded[i].client_data, "name"))

\* ------------------------------------------------------------------------
\* Claims
\* ------------------------------------------------------------------------
\* C1: every invocation of callback issues exactly one of ack / nack: never
\* both, and an invocation that has issued neither still has a step to take.
C1_ExactlyOneAckOrNack ==
    \A m \in Msgs :
        LET n == Count(trace[m], "ack") + Count(trace[m], "nack")
        IN  /\ n <= 1
            /\ pc[m] = "done" <=> n = 1
            /\ pc[m] # "done" => ENABLED MsgStep(m)

\* one invocation acknowledged after its marker write faulted, another
\* negatively acknowledged
C1_Witness ==
    \E m1, m2 \in Msgs :
        /\ trace[m1] = <<"get_miss", "send_ok", "set_fault", "ack">>
        /\ trace[m2] = <<"nack">>

\* C2: an invocation whose delivery failed is acknowledged and never
\* negatively acknowledged, on the cache path, the fallback path and the
\* no-cache path.
C2_DeliveryFailureStillAcked ==
    \A m \in Msgs :
        Has(trace[m], "send_fail") =>
            Count(trace[m], "ack") = 1 /\ Count(trace[m], "nack") = 0

\* a failed delivery on the cache path and one on the fallback path
C2_Witness ==
    \E m1, m2 \in Msgs :
        /\ trace[m1] = <<"get_miss", "send_fail", "ack">>
        /\ trace[m2] = <<"get_fault", "send_fail", "ack">>

\* C3: a key in the cache was written by an invocation for that key after its
\* delivery returned success, and an invocation whose delivery failed writes
\* no marker.
C3_MarkerOnlyAfterSuccess ==
    /\ \A k \in cache :
         \E m \in Msgs : key[m] = k /\ Precedes(trace[m], "send_ok", "set_ok")
    /\ \A m \in Msgs :
         Has(trace[m], "send_fail") =>
            ~Has(trace[m], "set_ok") /\ ~Has(trace[m], "set_fault")

\* a marker is in the cache, and an invocation for another key failed to
\* deliver and left no marker
C3_Witness ==
    \E m1, m2 \in Msgs :
        /\ key[m1] \in cache
        /\ trace[m2] = <<"get_miss", "send_fail", "ack">>
        /\ key[m2] \notin cache

\* C4: when the existence check answers (no fault), a key whose marker is in
\* the cache ends the invocation with ack and no delivery call, and a key whose
\* marker is absent (never written, or expired) goes on to delivery.
C4_SkipWhileMarked ==
    /\ [](\A m \in Msgs :
            Has(trace[m], "get_hit") => trace[m] = <<"get_hit", "ack">> /\ pc[m] = "done")
    /\ [][\A m \in Msgs :
            (pc[m] = "get" /\ pc'[m] # "get" /\ ~Has(trace'[m], "get_fault")) =>
                IF key[m] \in cache
                THEN trace'[m] = <<"get_hit", "ack">>
                ELSE trace'[m] = <<"get_miss">> /\ pc'[m] = "send"]_vars

\* one message delivered and marked, a later one with the same key skipped
C4_Witness ==
    \E m1, m2 \in Msgs :
        /\ m1 # m2
        /\ key[m1] = key[m2]
        /\ raw[m1] # raw[m2]
        /\ trace[m1] = <<"get_miss", "send_ok", "set_ok", "ack">>
        /\ trace[m2] = <<"get_hit", "ack">>
        /\ key[m1] \in cache

\* the decoded record of payload i (before validation) has no name, email,
\* phone or notes
EmptyRecord(i) ==
    /\ ~Decoded[i].raises
    /\ \A f \in {"name", "email", "phone", "notes"} : ~Truthy(DictGet(Decoded[i].record, f))

\* C5: a message whose decoded record has none of name, email, phone, notes
\* non-empty is acknowledged and the webhook is never called for it.
C5_EmptyNeverDelivered ==
    \A m \in Msgs :
        (pc[m] # "idle" /\ EmptyRecord(raw[m])) =>
            /\ Sends(trace[m]) = 0
            /\ ~Has(trace[m], "nack")
            /\ pc[m] = "done" => Has(trace[m], "ack")

\* C6: a payload that parses as JSON is never negatively acknowledged.
C6_JsonNeverNacked ==
    \A m \in Msgs :
        (pc[m] # "idle" /\ Payload(m).kind = "json") => ~Has(trace[m], "nack")

\* C7: a payload that fails to parse as JSON (invalid UTF-8 included) has its
\* text, undecodable bytes replaced, as the record's notes, and is not
\* negatively acknowledged.
C7_NonJsonBecomesNotes ==
    \A m \in Msgs :
        (pc[m] # "idle" /\ Payload(m).kind \in {"invalid_utf8", "not_json"}) =>
            /\ ~Has(trace[m], "nack")
            /\ client_data[m].t = "dict"
            /\ DictGet(client_data[m], "notes") = PyStr(Payload(m).text)

\* C8: when the existence check faults, the delivery is still attempted and
\* the message is acknowledged, not negatively acknowledged.
C8_FailOpenOnGetFault ==
    \A m \in Msgs :
        Has(trace[m], "get_fault") =>
            /\ ~Has(trace[m], "nack")
            /\ pc[m] # "done" => pc[m] = "fallback"
            /\ pc[m] = "done" => Sends(trace[m]) = 1 /\ Has(trace[m], "ack")

\* the existence check faulted, the delivery went out, the message was acked
C8_Witness ==
    \E m \in Msgs : trace[m] = <<"get_fault", "send_ok", "ack">>

\* C9: when the marker write faults after a successful delivery, the message
\* is acknowledged, not negatively acknowledged, and the delivery is not made
\* a second time.
C9_SetFaultSwallowed ==
    \A m \in Msgs :
        Has(trace[m], "set_fault") =>
            /\ trace[m] = <<"get_miss", "send_ok", "set_fault", "ack">>
            /\ pc[m] = "done"

\* the marker write faulted and left no marker
C9_Witness ==
    \E m \in Msgs :
        /\ Has(trace[m], "set_fault")
        /\ pc[m] = "done"
        /\ key[m] \notin cache

\* C10: a fault that reaches the outer handler (UnicodeDecodeError of the
\* payload, AttributeError of a record or a name of the wrong type) ends the
\* invocation with nack and no ack.
C10_UnhandledFaultNacks ==
    \A m \in Msgs :
        (pc[m] # "idle" /\ RaisesUnhandled(raw[m])) =>
            trace[m] = <<"nack">> /\ pc[m] = "done"

\* a payload of invalid UTF-8 and a payload whose name is a number, both nacked
C10_Witness ==
    \E m1, m2 \in Msgs :
        /\ pc[m1] = "done" /\ pc[m2] = "done"
        /\ Payload(m1).kind = "invalid_utf8" /\ trace[m1] = <<"nack">>
        /\ Payload(m2).kind = "json" /\ ~Decoded[raw[m2]].raises
        /\ trace[m2] = <<"nack">>

\* ------------------------------------------------------------------------
\* Claims C11-C20
\* ------------------------------------------------------------------------
\* C11: with no webhook URL configured every message is acknowledged, the
\* webhook is never called and the cache is neither read nor written: the
\* invocation's only call is message.ack().
C11_NoWebhookAcksEverything ==
    DISCORD_URL = "" => \A m \in Msgs : pc[m] # "idle" => trace[m] = <<"ack">>

\* C12: the existence check reserves nothing: an invocation that is past the
\* check and about to deliver finds its key marked only if another invocation
\* for the same key wrote the marker.  (The interleaving the claim speaks of is
\* C12_Witness.)
C12_CheckReservesNothing ==
    \A m \in Msgs :
        (pc[m] = "send" /\ key[m] \in cache) =>
            \E m2 \in Msgs \ {m} : key[m2] = key[m] /\ Has(trace[m2], "set_ok")

\* two invocations for one key both passed the check on an empty cache and
\* both posted to the webhook, before either wrote the marker
C12_Witness ==
    \E m1, m2 \in Msgs :
        /\ m1 # m2
        /\ key[m1] = key[m2]
        /\ trace[m1] = <<"get_miss", "send_ok">> /\ pc[m1] = "set"
        /\ trace[m2] = <<"get_miss", "send_ok">> /\ pc[m2] = "set"
        /\ cache = {}

RECURSIVE AloneFrom(_, _)
\* the complete traces of one invocation that runs alone on an empty cache,
\* from the point `p` with the calls `tr` made so far
AloneFrom(p, tr) ==
    CASE p \in {"ack", "nack"} -> {tr \o Terminal(p)}
      [] p = "get" ->
            UNION {AloneFrom(AfterGet(res), tr \o <<res>>) : res \in {"get_miss", "get_fault"}}
      [] p = "send" ->
            UNION {AloneFrom(AfterSend(res),
                             tr \o (IF res = "send_ok" /\ ~IntParses(REDIS_TTL)
                                    THEN <<res, "ttl_fault">> ELSE <<res>>)) :
                   res \in {"send_ok", "send_fail"}}
      [] p = "set" ->
            UNION {AloneFrom(AfterSet(res), tr \o <<res>>) : res \in {"set_ok", "set_fault"}}
      [] p = "fallback" ->
            UNION {AloneFrom(AfterFallbackSend(res), tr \o <<res>>) :
                   res \in {"send_ok", "send_fail"}}
      [] OTHER ->
            UNION {AloneFrom(AfterPlainSend(res), tr \o <<res>>) :
                   res \in {"send_ok", "send_fail"}}

\* no other invocation has message m's dedup key (or m computed none)
KeyUnshared(m) == key[m] = <<>> \/ \A m2 \in Msgs \ {m} : key[m2] # key[m]

\* C13: an invocation whose dedup key no other invocation shares ends, under
\* every interleaving, with an outcome it can have when processed alone, and a
\* marker for its key is in the cache only if it wrote it itself.
C13_DistinctKeysIndependent ==
    \A m \in Msgs :
        KeyUnshared(m) =>
            /\ pc[m] = "done" => trace[m] \in AloneFrom(AfterReceive(raw[m]), <<>>)
            /\ key[m] \in cache => Has(trace[m], "set_ok")

\* two invocations with distinct keys in flight together, one already marked,
\* the other about to write its marker
C13_Witness ==
    \E m1, m2 \in Msgs :
        /\ key[m1] # <<>> /\ key[m2] # <<>> /\ key[m1] # key[m2]
        /\ KeyUnshared(m1) /\ KeyUnshared(m2)
        /\ trace[m1] = <<"get_miss", "send_ok", "set_ok", "ack">> /\ key[m1] \in cache
        /\ trace[m2] = <<"get_miss", "send_ok">> /\ pc[m2] = "set"

\* ------------------------------------------------------------------------
\* Progress
\* ------------------------------------------------------------------------
\* What the code guarantees to return.  The queue's worker threads run
\* callback, and requests.post is called with timeout=15 (line 50), so the
\* three sends always return.  The Redis client is built by
\* redis.Redis.from_url(url, decode_responses=True) (line 26) with no
\* socket_timeout, so get and set block for as long as the store stays silent:
\* nothing makes CacheGet or CacheSet happen.
LiveSpec ==
    /\ Spec
    /\ \A m \in Msgs :
         /\ WF_vars(Receive(m))
         /\ WF_vars(Send(m))
         /\ WF_vars(SendFallback(m))
         /\ WF_vars(SendNoCache(m))

\* C14: the cache lookup and the delivery call are bounded by timeouts, so
\* every invocation of callback eventually issues its ack or nack.
C14_EveryInvocationEnds ==
    \A m \in Msgs : (pc[m] # "idle") ~> (pc[m] = "done")

\* C18: within one invocation the webhook is posted to at most once.
C18_AtMostOneSend ==
    \A m \in Msgs : Sends(trace[m]) <= 1

\* the place of a call in the order check, delivery, marker write, ack/nack
Rank(e) ==
    CASE e \in {"get_hit", "get_miss", "get_fault"} -> 1
      [] e \in {"send_ok", "send_fail", "ttl_fault"} -> 2
      [] e \in {"set_ok", "set_fault"} -> 3
      [] OTHER -> 4

\* C19: within one invocation the calls come in the order existence check,
\* delivery, marker write, ack/nack; a marker write directly follows a
\* successful delivery; nothing follows the ack or nack.
C19_StepOrder ==
    \A m \in Msgs :
        LET tr == trace[m]
        IN  /\ \A i, j \in 1..Len(tr) : i < j => Rank(tr[i]) <= Rank(tr[j])
            /\ \A i \in 1..Len(tr) : Rank(tr[i]) = 4 => i = Len(tr) /\ pc[m] = "done"
            /\ \A i \in 1..Len(tr) : Rank(tr[i]) = 3 => i > 1 /\ tr[i - 1] = "send_ok"

\* an invocation that made all four calls
C19_Witness ==
    \E m \in Msgs :
        /\ pc[m] = "done"
        /\ Len(trace[m]) = 4
        /\ {Rank(trace[m][i]) : i \in 1..4} = {1, 2, 3, 4}

\* the key of the placeholder name: "client_cache:cliente_sem_nome"
PlaceholderKey ==
    <<"client_cache:", "c", "l", "i", "e", "n", "t", "e", "_", "s", "e", "m", "_",
      "n", "o", "m", "e">>

\* the decoded record of payload i (before validation) has no email, phone or name
Nameless(i) ==
    /\ ~Decoded[i].raises
    /\ \A f \in {"email", "phone", "name"} : ~Truthy(DictGet(Decoded[i].record, f))

\* C20: every record with no email, no phone and no name gets the key of the
\* placeholder name, never the "unknown" sentinel, whatever its notes.
C20_NamelessShareOneKey ==
    \A m \in Msgs :
        (pc[m] # "idle" /\ Nameless(raw[m]) /\ key[m] # <<>>) =>
            key[m] = PlaceholderKey

\* one nameless message delivered and marked, a later one with other notes skipped
C20_Witness ==
    \E m1, m2 \in Msgs :
        /\ pc[m1] = "done" /\ pc[m2] = "done"
        /\ Nameless(raw[m1]) /\ Nameless(raw[m2])
        /\ DictGet(client_data[m1], "notes") # DictGet(client_data[m2], "notes")
        /\ trace[m1] = <<"get_miss", "send_ok", "set_ok", "ack">>
        /\ trace[m2] = <<"get_hit", "ack">>

\* ------------------------------------------------------------------------
\* _safe_filename and _client_cache_key called on their own
\* ------------------------------------------------------------------------
\* longest name drawn (before padding to the length cap)
MaxNameLen == 3

\* longest identity value drawn
MaxIdLen == 2

\* the strings over alphabet A of length at most n
Strings(A, n) == UNION {[1..k -> A] : k \in 0..n}

RECURSIVE Repeat(_, _)
\* n times the character c
Repeat(c, n) == IF n = 0 THEN <<>> ELSE <<c>> \o Repeat(c, n - 1)

\* names: short ones, and the same behind a run of letters that reaches the cap
NameInputs ==
    {pad \o s : pad \in {<<>>, Repeat("a", NameCap - 1)},
                s \in Strings({"a", "e_acute", " ", "TAB", "!"}, MaxNameLen)}

\* identity values (an email, a phone or a name)
IdInputs == Strings({"a", "A", "e_acute", ".", "-", "1"}, MaxIdLen)

FnInputs ==
    {[op |-> "filename", field |-> "name", a |-> s, b |-> <<>>] : s \in NameInputs}
    \cup {[op |-> "key", field |-> f, a |-> s1, b |-> s2] :
             f \in {"email", "phone", "name"}, s1 \in IdInputs, s2 \in IdInputs}

\* datetime.datetime.utcnow().strftime("%Y%m%d_%H%M%S"), at some instant
Timestamp == <<"2", "0", "2", "6", "1", "1", "0", "3", "_", "1", "4", "2", "4", "0", "0">>

\* the whole return value of _safe_filename: f"cliente_{name}_{ts}.txt"
Filename(name) ==
    <<"c", "l", "i", "e", "n", "t", "e", "_">> \o _safe_filename(name) \o <<"_">>
        \o Timestamp \o <<".", "t", "x", "t">>

FnInit ==
    /\ DISCORD_URL = ""
    /\ redis_client = FALSE
    /\ REDIS_TTL = "3600"
    /\ cache = {}
    /\ pc = [m \in Msgs |-> "idle"]
    /\ raw = [m \in Msgs |-> 0]
    /\ client_data = [m \in Msgs |-> PyNone]
    /\ key = [m \in Msgs |-> <<>>]
    /\ trace = [m \in Msgs |-> <<>>]
    /\ fn_in \in FnInputs
    /\ fn_out = NoOutput

\* _safe_filename(name): the filename, and its name part
ApplySafeFilename ==
    /\ fn_in.op = "filename"
    /\ ~fn_out.done
    /\ fn_out' = [done |-> TRUE,
                  a |-> Filename(PyStr(fn_in.a)),
                  b |-> _safe_filename(PyStr(fn_in.a))]
    /\ UNCHANGED <<config, cache, pc, raw, client_data, key, trace, fn_in>>

\* _client_cache_key on two records that hold one identity field each
ApplyCacheKey ==
    /\ fn_in.op = "key"
    /\ ~fn_out.done
    /\ fn_out' = [done |-> TRUE,
                  a |-> _client_cache_key(PyDict(<< <<fn_in.field, PyStr(fn_in.a)>> >>)),
                  b |-> _client_cache_key(PyDict(<< <<fn_in.field, PyStr(fn_in.b)>> >>))]
    /\ UNCHANGED <<config, cache, pc, raw, client_data, key, trace, fn_in>>

FnNext == ApplySafeFilename \/ ApplyCacheKey

FnSpec == FnInit /\ [][FnNext]_vars

\* accents stripped and letters lower-cased
Folded(s) == Lower(_remove_accents(s))

\* the letters and digits of s, accents stripped and lower-cased
Canon(s) == SelectSeq(Folded(s), LAMBDA c : c \in Lowers \cup Digits)

\* C15: two records with the same identity field whose values differ only in
\* accents, letter case or punctuation get the same dedup key.
C15_SameIdentitySameKey ==
    (fn_out.done /\ fn_in.op = "key" /\ fn_in.a # <<>> /\ fn_in.b # <<>>
        /\ Canon(fn_in.a) = Canon(fn_in.b)) =>
            fn_out.a = fn_out.b

\* C16: records with different emails (different beyond accents and letter
\* case) get different dedup keys.
C16_DifferentEmailsDifferentKeys ==
    (fn_out.done /\ fn_in.op = "key" /\ fn_in.field = "email"
        /\ fn_in.a # <<>> /\ fn_in.b # <<>>
        /\ Folded(fn_in.a) # Folded(fn_in.b)) =>
            fn_out.a # fn_out.b

\* the characters of a filename before its ".txt"
Stem(f) == SubSeq(f, 1, Len(f) - 4)

\* C17: for any name the filename is made of [A-Za-z0-9_-] and the ".txt"
\* suffix, its name part is at most 50 characters, and it is not empty.
C17_FilenameSafe ==
    (fn_out.done /\ fn_in.op = "filename") =>
        /\ Len(fn_out.a) > 4
        /\ SubSeq(fn_out.a, Len(fn_out.a) - 3, Len(fn_out.a)) = <<".", "t", "x", "t">>
        /\ \A i \in 1..Len(Stem(fn_out.a)) :
             Stem(fn_out.a)[i] \in Lowers \cup Uppers \cup Digits \cup {"_", "-"}
        /\ Len(fn_out.b) <= NameCap

====
